---------------------------- MODULE Spec2Model ----------------------------
(***************************************************************************)
(* A model of the YouTube transcript retrieval pipeline of backend.py:     *)
(* URL classification, video enumeration, transcript fetching with its     *)
(* fallback tiers, and the multi-video chunking/index build; of the        *)
(* Streamlit session of app.py (processing runs, Clear All Data, chat);    *)
(* and of the results file of utils.py (save and load).                    *)
(*                                                                         *)
(* Python strings are sequences of tokens.  A token is one character, or   *)
(* a named block that stands for a run of characters none of the string    *)
(* tests of the code looks into (a caption segment, an exception detail).  *)
(***************************************************************************)
EXTENDS Integers, Sequences, FiniteSets, TLC

VARIABLES
    \* --- URL classifier (app.py text input, backend.detect_url_type)
    url,            \* the text typed into the URL field
    url_parts,      \* how many fragments were typed
    url_type,       \* last classification, "none" before any
    \* --- video enumerator (backend.extract_video_links_from_*)
    e_op,           \* which entry point this run exercises
    e_pc,           \* "serve": the remote side is still being fixed; "done"
    page,           \* the <script> elements of the playlist page
    listing,        \* the entries of the flat search listing
    e_args,         \* the arguments and remote behaviour of the call
    e_result,       \* what the call returned or raised
    \* --- one call of backend.get_youtube_transcript
    f_pc,           \* "ready" before the call, "done" after
    f_url,          \* the url argument
    f_env,          \* how the caption and speech-to-text services answer
    f_result,       \* the returned value and the services called
    \* --- one run of backend.build_vectorstore_from_multiple_videos
    b_pc,           \* "loop", "returned", "raised"
    video_urls,     \* the (url, title) argument
    has_callback,   \* whether a progress_callback was passed
    b_i,            \* the loop index i of the next video
    all_chunks,
    processing_results,
    fetched,        \* what get_youtube_transcript returned, video by video
    events,         \* callbacks, fetches, sleeps and the embedding, in order
    b_result,       \* the returned dict, or where the run raised
    \* --- the Streamlit session of app.py, one step per script run
    session,        \* st.session_state: key -> value
    shown,          \* the sources drawn under each chat message by the last run
    runs,           \* the "Process Videos" runs so far
    last_index,     \* the retriever of the most recent successful run
    a_exc,          \* the exception that ended the last script run, or "none"
    \* --- utils.save_processing_results / load_processing_results
    u_pc,           \* "ready", "saved", "loaded"
    u_results,      \* the results argument of the last save
    fs,             \* the file: absent, or its text
    u_loaded,       \* what load_processing_results returned
    u_errors        \* the st.error messages of the load

c_vars == <<url, url_parts, url_type>>
e_vars == <<e_op, e_pc, page, listing, e_args, e_result>>
f_vars == <<f_pc, f_url, f_env, f_result>>
b_vars == <<b_pc, video_urls, has_callback, b_i, all_chunks, processing_results,
            fetched, events, b_result>>
a_vars == <<session, shown, runs, last_index, a_exc>>
u_vars == <<u_pc, u_results, fs, u_loaded, u_errors>>
vars == <<c_vars, e_vars, f_vars, b_vars, a_vars, u_vars>>

None == "None"

----------------------------------------------------------------------------
(* Python string operations on token sequences *)

\* m in s
Contains(s, m) ==
    \E i \in 1..(Len(s) - Len(m) + 1) : SubSeq(s, i, i + Len(m) - 1) = m

\* s.startswith(p)
StartsWith(s, p) ==
    /\ Len(s) >= Len(p)
    /\ SubSeq(s, 1, Len(p)) = p

----------------------------------------------------------------------------
(* URL classifier *)

WatchMarker   == <<"/", "w", "a", "t", "c", "h", "?", "v", "=">>
ListMarker    == <<"l", "i", "s", "t", "=">>
SearchQMarker == <<"/", "s", "e", "a", "r", "c", "h", "?">>
HandleMarker  == <<"/", "@">>
SearchWord    == <<"s", "e", "a", "r", "c", "h">>

\* the pieces a typed URL is made of: the markers, parts of markers that
\* join into a marker across a piece boundary, and an unrelated character
UrlFragments ==
    { WatchMarker, ListMarker, SearchQMarker, HandleMarker, SearchWord,
      <<"/">>, <<"@">>, <<"?">>, <<"=">>, <<"v", "=">>,
      <<"w", "a", "t", "c", "h">>, <<"l", "i", "s", "t">>, <<"x">> }

MaxUrlParts == 3

\* the watch test without its "'list=' not in url" part
detect_url_type_no_list_guard(u) ==
    IF Contains(u, WatchMarker) THEN "single_video"
    ELSE IF Contains(u, ListMarker) THEN "playlist"
    ELSE IF Contains(u, SearchQMarker)
            \/ (Contains(u, HandleMarker) /\ Contains(u, SearchWord))
         THEN "channel_search"
    ELSE "unknown"

detect_url_type(u) ==
    IF Contains(u, WatchMarker) /\ ~Contains(u, ListMarker) THEN "single_video"
    ELSE IF Contains(u, ListMarker) THEN "playlist"
    ELSE IF Contains(u, SearchQMarker)
            \/ (Contains(u, HandleMarker) /\ Contains(u, SearchWord))
         THEN "channel_search"
    ELSE "unknown"

----------------------------------------------------------------------------
(* Video enumerator *)

\* outcome of a try body: a returned value, or an exception on its way out
Ret(v) == [raised |-> FALSE, value |-> v]
Raised == [raised |-> TRUE, value |-> <<>>]

\* position of the first occurrence of m in s (m occurs in s)
FirstIndex(s, m) ==
    CHOOSE i \in 1..(Len(s) - Len(m) + 1) :
        /\ SubSeq(s, i, i + Len(m) - 1) = m
        /\ \A j \in 1..(i - 1) : SubSeq(s, j, j + Len(m) - 1) # m

\* s.split(m)[0]
SplitHead(s, m) ==
    IF Contains(s, m) THEN SubSeq(s, 1, FirstIndex(s, m) - 1) ELSE s

\* s.split(m)[1] (m occurs in s)
SplitSecond(s, m) ==
    SplitHead(SubSeq(s, FirstIndex(s, m) + Len(m), Len(s)), m)

\* playlist_url.split('list=')[1].split('&')[0]
PlaylistId(playlist_url) ==
    SplitHead(SplitSecond(playlist_url, ListMarker), <<"&">>)

\* f"https://www.youtube.com/watch?v={video_id}"
WatchUrl(video_id) == <<"https://www.youtube.com", "/watch?v=", video_id>>

\* any(existing_url == video_url for existing_url, _ in video_links)
HasUrl(video_links, video_url) ==
    \E k \in 1..Len(video_links) : video_links[k][1] = video_url

\* the loop over the matches of one script without the duplicate test
RECURSIVE ScanMatches_no_dedupe(_, _, _, _)
ScanMatches_no_dedupe(matches, k, video_links, max_videos) ==
    IF k > Len(matches) THEN video_links
    ELSE LET appended == Append(video_links, <<WatchUrl(matches[k][1]), matches[k][2]>>)
         IN  IF Len(appended) >= max_videos THEN appended
             ELSE ScanMatches_no_dedupe(matches, k + 1, appended, max_videos)

\* for video_id, title in matches: append unseen urls, break at max_videos
RECURSIVE ScanMatches(_, _, _, _)
ScanMatches(matches, k, video_links, max_videos) ==
    IF k > Len(matches) THEN video_links
    ELSE LET video_url == WatchUrl(matches[k][1])
             appended  == Append(video_links, <<video_url, matches[k][2]>>)
         IN  IF ~HasUrl(video_links, video_url)
             THEN IF Len(appended) >= max_videos THEN appended
                  ELSE ScanMatches(matches, k + 1, appended, max_videos)
             ELSE ScanMatches(matches, k + 1, video_links, max_videos)

\* for script in scripts: scan the scripts that hold ytInitialData, stop
\* after the first one that gave links
RECURSIVE ScanScripts(_, _, _, _)
ScanScripts(scripts, k, video_links, max_videos) ==
    IF k > Len(scripts) THEN video_links
    ELSE IF scripts[k].kind = "data"
         THEN LET found == ScanMatches(scripts[k].matches, 1, video_links, max_videos)
              IN  IF found # <<>> THEN found
                  ELSE ScanScripts(scripts, k + 1, found, max_videos)
         ELSE ScanScripts(scripts, k + 1, video_links, max_videos)

\* the handler of the playlist entry point lets the exception through
PlaylistExcept_reraise(body) == body

\* except Exception as e: logger.error(...); return []
PlaylistExcept(body) == IF body.raised THEN Ret(<<>>) ELSE body

extract_video_links_from_playlist(playlist_url, max_videos, response) ==
    PlaylistExcept(
        IF ~Contains(playlist_url, ListMarker) \/ PlaylistId(playlist_url) = <<>>
        THEN Ret(<<>>)
        ELSE IF ~response.ok THEN Raised
        ELSE Ret(ScanScripts(response.scripts, 1, <<>>, max_videos)))

\* entries[:max_videos]
Take(s, n) == SubSeq(s, 1, IF n < Len(s) THEN n ELSE Len(s))

\* a value Python treats as true: neither None nor the empty string
Truthy(x) == x # None /\ x # ""

\* for entry in entries[:max_videos]: keep the entries with id and title;
\* entry.get on an entry that is None raises
RECURSIVE CollectEntries(_, _, _)
CollectEntries(entries, k, video_links) ==
    IF k > Len(entries) THEN Ret(video_links)
    ELSE IF entries[k].kind = "none" THEN Raised
    ELSE IF Truthy(entries[k].id) /\ Truthy(entries[k].title)
         THEN CollectEntries(entries, k + 1,
                  Append(video_links, <<WatchUrl(entries[k].id), entries[k].title>>))
         ELSE CollectEntries(entries, k + 1, video_links)

\* except Exception as e: logger.error(...); return []
SearchExcept(body) == IF body.raised THEN Ret(<<>>) ELSE body

\* info: "raises" (extract_info raises), "none" (it returns None),
\* "no_entries" (a dict without 'entries'), "entries" (a dict holding them)
extract_video_links_from_search_url(info, entries, max_videos) ==
    SearchExcept(
        IF info = "raises" \/ info = "none" THEN Raised
        ELSE CollectEntries(
                 Take(IF info = "no_entries" THEN <<>> ELSE entries, max_videos),
                 1, <<>>))

----------------------------------------------------------------------------
(* Transcript fetcher *)

\* Python values a transcript can be: a str, or None
PyStr(s) == [type |-> "str", s |-> s]
PyNone   == [type |-> "NoneType", s |-> <<>>]

ErrorColon == <<"E", "r", "r", "o", "r", ":">>
NoCaptions == <<"N", "o", " ", "c", "a", "p", "t", "i", "o", "n", "s">>

\* "Error: Invalid YouTube URL"
ErrInvalidUrl == ErrorColon \o <<" ", "Invalid YouTube URL">>
\* "Error: Unexpected transcript format received."
ErrUnexpectedFormat == ErrorColon \o <<" ", "Unexpected transcript format received.">>
\* f"Error: {e}"
ErrGeneric(e) == ErrorColon \o <<" ", e>>
\* f"Error (AssemblyAI): {e}"
ErrAssemblyAI(e) ==
    <<"E", "r", "r", "o", "r", " ", "(", "A", "s", "s", "e", "m", "b", "l", "y",
      "A", "I", ")", ":", " ", e>>

\* A URL as urlparse, parse_qs and the 11-character pattern see it:
\* netloc, the first 'v' query value (None without one), the path without
\* leading slashes, and the first pattern match (None without one).
get_youtube_video_id(u) ==
    IF u.netloc = "youtube.com" /\ u.v # None THEN u.v
    ELSE IF u.netloc = "youtu.be" THEN u.path
    ELSE u.re11

\* if not video_id
NoVideoId(video_id) == video_id = None \/ video_id = ""

\* speech-to-text tier.  stt: "dl_raises" (the download raises),
\* "stt_raises" (transcribe raises), "stt_failed" (transcribe returns a
\* transcript in error status, whose text is None), "stt_text".
assemblyai_transcribe_youtube(u, stt) ==
    IF NoVideoId(get_youtube_video_id(u)) THEN PyStr(ErrInvalidUrl)
    ELSE IF stt = "dl_raises" THEN PyStr(ErrAssemblyAI("download error"))
    ELSE IF stt = "stt_raises" THEN PyStr(ErrAssemblyAI("transcriber error"))
    ELSE IF stt = "stt_failed" THEN PyNone
    ELSE PyStr(<<"spoken text">>)

\* " ".join(chunk["text"] for chunk in transcript_list)
RECURSIVE JoinSegments(_)
JoinSegments(segs) ==
    IF segs = <<>> THEN <<>>
    ELSE IF Len(segs) = 1 THEN <<segs[1]>>
    ELSE <<segs[1], " ">> \o JoinSegments(Tail(segs))

\* the format test and the join of a fetched transcript_list.  fmt:
\* "segments" (a list of items with 'text'), "bad_format" (no list, or an
\* item without 'text'), "bad_text" (a 'text' that is no str: join raises)
FormatTranscript(transcript_list) ==
    IF transcript_list.fmt = "bad_format"
    THEN [exc |-> "none", value |-> PyStr(ErrUnexpectedFormat)]
    ELSE IF transcript_list.fmt = "bad_text"
    THEN [exc |-> "TypeError", value |-> PyNone]
    ELSE [exc |-> "none", value |-> PyStr(JoinSegments(transcript_list.segs))]

\* the 'en-US' retrieval is left out of the chain
CaptionTiers_skip_en_US(u, env) ==
    IF env.t1.kind = "ok"
    THEN [returned |-> FALSE, list |-> env.t1.list,
          calls |-> <<"get_transcript:en">>]
    ELSE IF env.t3.kind = "ok"
    THEN [returned |-> FALSE, list |-> env.t3.list,
          calls |-> <<"get_transcript:en", "list_transcripts">>]
    ELSE [returned |-> TRUE, value |-> assemblyai_transcribe_youtube(u, env.stt),
          calls |-> <<"get_transcript:en", "list_transcripts", "assemblyai">>]

\* the nested try blocks of the caption tiers: a bare except catches every
\* exception of a tier, TranscriptsDisabled included; the last handler
\* returns the speech-to-text result
CaptionTiers(u, env) ==
    IF env.t1.kind = "ok"
    THEN [returned |-> FALSE, list |-> env.t1.list,
          calls |-> <<"get_transcript:en">>]
    ELSE IF env.t2.kind = "ok"
    THEN [returned |-> FALSE, list |-> env.t2.list,
          calls |-> <<"get_transcript:en", "get_transcript:en-US">>]
    ELSE IF env.t3.kind = "ok"
    THEN [returned |-> FALSE, list |-> env.t3.list,
          calls |-> <<"get_transcript:en", "get_transcript:en-US",
                      "list_transcripts">>]
    ELSE [returned |-> TRUE, value |-> assemblyai_transcribe_youtube(u, env.stt),
          calls |-> <<"get_transcript:en", "get_transcript:en-US",
                      "list_transcripts", "assemblyai">>]

\* the video id is not tested before the caption tiers
get_youtube_transcript_no_id_test(u, env) ==
    LET tiers == CaptionTiers(u, env)
    IN  IF tiers.returned
        THEN [value |-> tiers.value, calls |-> tiers.calls]
        ELSE LET body == FormatTranscript(tiers.list)
             IN  IF body.exc # "none"
                 THEN [value |-> PyStr(ErrGeneric(body.exc)), calls |-> tiers.calls]
                 ELSE [value |-> body.value, calls |-> tiers.calls]

\* returns [value, calls]: the returned value and the services called
get_youtube_transcript(u, env) ==
    IF NoVideoId(get_youtube_video_id(u))
    THEN [value |-> PyStr(ErrInvalidUrl), calls |-> <<>>]
    ELSE LET tiers == CaptionTiers(u, env)
         IN  IF tiers.returned
             THEN [value |-> tiers.value, calls |-> tiers.calls]
             ELSE LET body == FormatTranscript(tiers.list)
                  IN  IF body.exc = "TranscriptsDisabled"
                      THEN [value |-> assemblyai_transcribe_youtube(u, env.stt),
                            calls |-> Append(tiers.calls, "assemblyai")]
                      ELSE IF body.exc # "none"
                      THEN [value |-> PyStr(ErrGeneric(body.exc)),
                            calls |-> tiers.calls]
                      ELSE [value |-> body.value, calls |-> tiers.calls]

----------------------------------------------------------------------------
(* The services as one call meets them *)

MaxSegments == 2

\* caption segment lists of up to MaxSegments segments
RECURSIVE SegmentLists(_)
SegmentLists(n) ==
    IF n = 0 THEN {<<>>}
    ELSE SegmentLists(n - 1)
         \cup {Append(l, "caption") : l \in {x \in SegmentLists(n - 1) : Len(x) = n - 1}}

TranscriptLists ==
    {[fmt |-> "segments", segs |-> l] : l \in SegmentLists(MaxSegments)}
    \cup {[fmt |-> "bad_format", segs |-> <<>>], [fmt |-> "bad_text", segs |-> <<>>]}

\* a caption tier returns a transcript list, raises, or raises
\* TranscriptsDisabled
TierOutcomes ==
    {[kind |-> "ok", list |-> l] : l \in TranscriptLists}
    \cup {[kind |-> "raise", list |-> <<>>], [kind |-> "disabled", list |-> <<>>]}

SttOutcomes == {"dl_raises", "stt_raises", "stt_failed", "stt_text"}

Envs == [t1 : TierOutcomes, t2 : TierOutcomes, t3 : TierOutcomes, stt : SttOutcomes]

VideoUrls ==
    { [netloc |-> "youtube.com", v |-> "vid1", path |-> "watch", re11 |-> None],
      [netloc |-> "youtu.be", v |-> None, path |-> "vid2", re11 |-> "vid2"],
      [netloc |-> "youtu.be", v |-> None, path |-> "", re11 |-> None],
      [netloc |-> "other", v |-> None, path |-> "x", re11 |-> None] }

----------------------------------------------------------------------------
(* Chunking and index build *)

\* RecursiveCharacterTextSplitter(chunk_size=1000, chunk_overlap=200) on a
\* transcript: nothing for the empty text; a caption segment stands for a
\* span of text that fills one chunk; any other text (a short message, the
\* speech-to-text result) fits one chunk.
SplitText(text) ==
    LET captions == SelectSeq(text, LAMBDA tok : tok = "caption")
    IN  IF text = <<>> THEN <<>>
        ELSE IF captions = <<>> THEN <<text>>
        ELSE [k \in 1..Len(captions) |-> <<captions[k]>>]

\* the chunks carry the loop index counted from one
ChunkDocs_one_based(text, source, title, i) ==
    LET pieces == SplitText(text)
    IN  [k \in 1..Len(pieces) |->
            [page_content |-> pieces[k],
             metadata |-> [source |-> source, title |-> title, video_index |-> i + 1]]]

\* chunks = splitter.create_documents([transcript]);
\* chunk.metadata = {"source": url, "title": title, "video_index": i}
ChunkDocs(text, source, title, i) ==
    LET pieces == SplitText(text)
    IN  [k \in 1..Len(pieces) |->
            [page_content |-> pieces[k],
             metadata |-> [source |-> source, title |-> title, video_index |-> i]]]

\* transcript.startswith("Error:") or transcript.startswith("No captions")
IsFailure(text) == StartsWith(text, ErrorColon) \/ StartsWith(text, NoCaptions)

\* what one call of get_youtube_transcript can return for a url
FetchValues ==
    [u \in VideoUrls |-> {get_youtube_transcript(u, env).value : env \in Envs}]

ClassifyIdle ==
    /\ url = <<>>
    /\ url_parts = 0
    /\ url_type = "none"

EnumIdle ==
    /\ e_op = "none"
    /\ e_pc = "idle"
    /\ page = <<>>
    /\ listing = <<>>
    /\ e_args = <<>>
    /\ e_result = <<>>

FetchIdle ==
    /\ f_pc = "idle"
    /\ f_url = <<>>
    /\ f_env = <<>>
    /\ f_result = <<>>

BuildIdle ==
    /\ b_pc = "idle"
    /\ video_urls = <<>>
    /\ has_callback = FALSE
    /\ b_i = 0
    /\ all_chunks = <<>>
    /\ processing_results = <<>>
    /\ fetched = <<>>
    /\ events = <<>>
    /\ b_result = <<>>

AppIdle ==
    /\ session = <<>>
    /\ shown = <<>>
    /\ runs = 0
    /\ last_index = <<>>
    /\ a_exc = "none"

ResultsIdle ==
    /\ u_pc = "idle"
    /\ u_results = <<>>
    /\ fs = <<>>
    /\ u_loaded = <<>>
    /\ u_errors = <<>>

ClassifyInit ==
    /\ EnumIdle /\ FetchIdle /\ BuildIdle /\ AppIdle /\ ResultsIdle
    /\ url = <<>>
    /\ url_parts = 0
    /\ url_type = "none"

\* the user types more of the URL; the page reruns with no classification yet
TypeUrl ==
    /\ url_parts < MaxUrlParts
    /\ \E f \in UrlFragments : url' = url \o f
    /\ url_parts' = url_parts + 1
    /\ url_type' = "none"
    /\ UNCHANGED <<e_vars, f_vars, b_vars, a_vars, u_vars>>

\* the URL validation of the sidebar: a non-empty URL is classified
ValidateUrl ==
    /\ url # <<>>
    /\ url_type' = detect_url_type(url)
    /\ UNCHANGED <<url, url_parts>>
    /\ UNCHANGED <<e_vars, f_vars, b_vars, a_vars, u_vars>>

ClassifyNext == TypeUrl \/ ValidateUrl

SpecClassify == ClassifyInit /\ [][ClassifyNext]_vars

----------------------------------------------------------------------------
(* Enumerator runs: the remote side fixes a page or a listing, then the
   entry point is called once *)

MaxScripts == 2
MaxMatches == 3
MaxEntries == 3
MaxVideos  == 2

VideoIds == {"a", "b"}

\* what the pattern extraction finds in a script: (videoId, title) pairs
PlaylistMatches == {<<"a", "T">>, <<"a", "U">>, <<"b", "T">>}

\* script.string is None / holds no 'ytInitialData' / holds it
ScriptKinds == {"nostring", "other", "data"}

\* entries of the flat listing: dicts with or without id and title, or None
SearchEntries ==
    {[kind |-> "dict", id |-> i, title |-> t] :
        i \in VideoIds \cup {None}, t \in {"T", None}}
    \cup {[kind |-> "none", id |-> None, title |-> None]}

PlaylistUrls ==
    { ListMarker \o <<"P", "L", "&", "x">>,
      ListMarker \o <<"P", "L">>,
      ListMarker \o <<"&", "x">>,
      <<"/", "x">> }

InfoKinds == {"raises", "none", "no_entries", "entries"}

RECURSIVE TotalMatches(_)
TotalMatches(scripts) ==
    IF scripts = <<>> THEN 0
    ELSE Len(Head(scripts).matches) + TotalMatches(Tail(scripts))

EnumInit ==
    /\ ClassifyIdle /\ FetchIdle /\ BuildIdle /\ AppIdle /\ ResultsIdle
    /\ e_op \in {"playlist", "search"}
    /\ e_pc = "serve"
    /\ page = <<>>
    /\ listing = <<>>
    /\ e_args = <<>>
    /\ e_result = <<>>

\* the playlist page gets one more <script> element
ServeScript ==
    /\ e_op = "playlist" /\ e_pc = "serve"
    /\ Len(page) < MaxScripts
    /\ \E kind \in ScriptKinds :
           page' = Append(page, [kind |-> kind, matches |-> <<>>])
    /\ UNCHANGED <<e_op, e_pc, listing, e_args, e_result>>
    /\ UNCHANGED <<c_vars, f_vars, b_vars, a_vars, u_vars>>

\* the last script, one with ytInitialData, gets one more videoId/title pair
ServeMatch ==
    /\ e_op = "playlist" /\ e_pc = "serve"
    /\ page # <<>>
    /\ page[Len(page)].kind = "data"
    /\ TotalMatches(page) < MaxMatches
    /\ \E m \in PlaylistMatches :
           page' = [page EXCEPT ![Len(page)].matches = Append(@, m)]
    /\ UNCHANGED <<e_op, e_pc, listing, e_args, e_result>>
    /\ UNCHANGED <<c_vars, f_vars, b_vars, a_vars, u_vars>>

\* the flat search listing gets one more entry
ServeEntry ==
    /\ e_op = "search" /\ e_pc = "serve"
    /\ Len(listing) < MaxEntries
    /\ \E e \in SearchEntries : listing' = Append(listing, e)
    /\ UNCHANGED <<e_op, e_pc, page, e_args, e_result>>
    /\ UNCHANGED <<c_vars, f_vars, b_vars, a_vars, u_vars>>

CallPlaylist ==
    /\ e_op = "playlist" /\ e_pc = "serve"
    /\ \E u \in PlaylistUrls, mv \in 0..MaxVideos, ok \in BOOLEAN :
           /\ e_args' = [playlist_url |-> u, max_videos |-> mv, http_ok |-> ok]
           /\ e_result' = extract_video_links_from_playlist(
                              u, mv, [ok |-> ok, scripts |-> page])
    /\ e_pc' = "done"
    /\ UNCHANGED <<e_op, page, listing>>
    /\ UNCHANGED <<c_vars, f_vars, b_vars, a_vars, u_vars>>

CallSearch ==
    /\ e_op = "search" /\ e_pc = "serve"
    /\ \E info \in InfoKinds, mv \in 0..MaxVideos :
           /\ e_args' = [info |-> info, max_videos |-> mv]
           /\ e_result' = extract_video_links_from_search_url(info, listing, mv)
    /\ e_pc' = "done"
    /\ UNCHANGED <<e_op, page, listing>>
    /\ UNCHANGED <<c_vars, f_vars, b_vars, a_vars, u_vars>>

EnumNext == ServeScript \/ ServeMatch \/ ServeEntry \/ CallPlaylist \/ CallSearch

SpecEnum == EnumInit /\ [][EnumNext]_vars

----------------------------------------------------------------------------
(* Claims about the video enumerator *)

\* the identifier inside a returned (url, title) pair
IdOf(link) == link[1][3]

\* the listing the playlist entry point reads: the matches of the first
\* ytInitialData script that has any
SourceMatches ==
    IF \E k \in 1..Len(page) : page[k].kind = "data" /\ page[k].matches # <<>>
    THEN page[CHOOSE k \in 1..Len(page) :
                  /\ page[k].kind = "data" /\ page[k].matches # <<>>
                  /\ \A j \in 1..(k - 1) :
                         ~(page[j].kind = "data" /\ page[j].matches # <<>>)].matches
    ELSE <<>>

\* position at which identifier id is first seen in a sequence of ids
FirstSeenAt(ids, id) ==
    CHOOSE k \in 1..Len(ids) : ids[k] = id /\ \A j \in 1..(k - 1) : ids[j] # id

\* the identifiers of the source listing of the run, in listing order
SourceIds ==
    IF e_op = "playlist"
    THEN [k \in 1..Len(SourceMatches) |-> SourceMatches[k][1]]
    ELSE [k \in 1..Len(listing) |-> listing[k].id]

NoDuplicateIds(links) ==
    \A j, k \in 1..Len(links) : j # k => IdOf(links[j]) # IdOf(links[k])

InFirstSeenOrder(links, ids) ==
    /\ \A k \in 1..Len(links) : \E n \in 1..Len(ids) : ids[n] = IdOf(links[k])
    /\ \A j, k \in 1..Len(links) :
           j < k => FirstSeenAt(ids, IdOf(links[j])) < FirstSeenAt(ids, IdOf(links[k]))

\* the call failed on the way: no playlist id, a failing HTTP request, a
\* failing or empty extractor output, or an entry that cannot be read
EnumError ==
    IF e_op = "playlist"
    THEN \/ ~Contains(e_args.playlist_url, ListMarker)
         \/ PlaylistId(e_args.playlist_url) = <<>>
         \/ ~e_args.http_ok
    ELSE \/ e_args.info # "entries"
         \/ \E k \in 1..Len(listing) :
                k <= e_args.max_videos /\ listing[k].kind = "none"

\* C2: both entry points return at most max_videos entries, for every
\* page or listing and every max_videos >= 0, without raising.
C2_AtMostMaxVideos ==
    e_pc = "done" =>
        /\ ~e_result.raised
        /\ Len(e_result.value) <= e_args.max_videos

\* C3 as stated: for playlist and search extraction alike the result has no
\* two entries with the same identifier and is in first-seen order.
C3_NoDuplicatesBoth ==
    e_pc = "done" =>
        /\ NoDuplicateIds(e_result.value)
        /\ InFirstSeenOrder(e_result.value, SourceIds)

Usable(e) == e.kind = "dict" /\ e.id # None /\ e.title # None

\* C3 amended: playlist extraction returns no two entries with the same
\* identifier, in first-seen order, each with the title of its first
\* occurrence; search extraction returns the entries with id and title among
\* the first max_videos of the listing, in listing order, repeats included.
C3_PlaylistDedupedSearchInOrder ==
    e_pc = "done" =>
        /\ e_op = "playlist" =>
               /\ NoDuplicateIds(e_result.value)
               /\ InFirstSeenOrder(e_result.value, SourceIds)
               /\ \A k \in 1..Len(e_result.value) :
                      e_result.value[k][2] =
                          SourceMatches[FirstSeenAt(SourceIds, IdOf(e_result.value[k]))][2]
        /\ (e_op = "search" /\ ~EnumError) =>
               LET kept == SelectSeq(Take(listing, e_args.max_videos), Usable)
               IN  e_result.value =
                       [k \in 1..Len(kept) |-> <<WatchUrl(kept[k].id), kept[k].title>>]

\* playlist extraction met a repeated identifier before a new one and
\* returned both identifiers once
C3_Witness ==
    /\ e_pc = "done" /\ e_op = "playlist"
    /\ Len(e_result.value) = 2
    /\ Len(SourceMatches) = 3
    /\ SourceMatches[1][1] = SourceMatches[2][1]

\* C4: both entry points fail soft: on any network, tool or parse error the
\* call returns the empty sequence, and it never raises.
C4_FailSoft ==
    e_pc = "done" =>
        /\ ~e_result.raised
        /\ EnumError => e_result.value = <<>>

\* the HTTP request of a playlist with an id failed, on a page with videos
C4_Witness ==
    /\ e_pc = "done" /\ e_op = "playlist"
    /\ ~e_args.http_ok
    /\ Contains(e_args.playlist_url, ListMarker)
    /\ PlaylistId(e_args.playlist_url) # <<>>
    /\ SourceMatches # <<>>
    /\ e_result = Ret(<<>>)

\* C1: detect_url_type is a first-match-wins decision over the substring
\* markers: single_video for '/watch?v=' without 'list=', playlist for any
\* URL with 'list=', channel_search when neither applies and the URL has
\* '/search?' or both '/@' and 'search', unknown in every other case.
C1_FirstMatchWins ==
    url_type # "none" =>
        LET watch  == Contains(url, WatchMarker)
            list   == Contains(url, ListMarker)
            search == Contains(url, SearchQMarker)
                      \/ (Contains(url, HandleMarker) /\ Contains(url, SearchWord))
        IN  /\ (watch /\ ~list) => url_type = "single_video"
            /\ list => url_type = "playlist"
            /\ (~watch /\ ~list /\ search) => url_type = "channel_search"
            /\ (~watch /\ ~list /\ ~search) => url_type = "unknown"

\* a URL with the watch marker, the playlist marker and a search marker was
\* classified as a playlist
C1_Witness ==
    /\ url_type = "playlist"
    /\ Contains(url, WatchMarker)
    /\ Contains(url, SearchQMarker)

----------------------------------------------------------------------------
(* One call of get_youtube_transcript *)

FetchInit ==
    /\ ClassifyIdle /\ EnumIdle /\ BuildIdle /\ AppIdle /\ ResultsIdle
    /\ f_pc = "ready"
    /\ f_url \in VideoUrls
    /\ f_env \in Envs
    /\ f_result = <<>>

FetchTranscript ==
    /\ f_pc = "ready"
    /\ f_result' = get_youtube_transcript(f_url, f_env)
    /\ f_pc' = "done"
    /\ UNCHANGED <<f_url, f_env>>
    /\ UNCHANGED <<c_vars, e_vars, b_vars, a_vars, u_vars>>

FetchNext == FetchTranscript

SpecFetch == FetchInit /\ [][FetchNext]_vars

----------------------------------------------------------------------------
(* One run of build_vectorstore_from_multiple_videos *)

MaxBatch == 3

VideoRefs ==
    { <<[netloc |-> "youtube.com", v |-> "vid1", path |-> "watch", re11 |-> None],
        "First">>,
      <<[netloc |-> "youtu.be", v |-> None, path |-> "vid2", re11 |-> "vid2"],
        "Second">>,
      <<[netloc |-> "other", v |-> None, path |-> "x", re11 |-> None],
        "Single Video">> }

RECURSIVE Batches(_)
Batches(n) ==
    IF n = 0 THEN {<<>>}
    ELSE Batches(n - 1)
         \cup {Append(b, r) : b \in {x \in Batches(n - 1) : Len(x) = n - 1},
                              r \in VideoRefs}

\* return {"error": "No transcripts processed", "processing_results": ...}
NoTranscriptsDict(results) ==
    [error |-> "No transcripts processed", processing_results |-> results]

\* total_chunks counts the videos instead of the chunks
ResultDict_counts_videos(chunks, results) ==
    [retriever |-> [docs |-> chunks, k |-> 5],
     vector_store |-> [docs |-> chunks],
     chunks |-> chunks,
     processing_results |-> results,
     total_chunks |-> Len(results),
     successful_videos |->
         Len(SelectSeq(results, LAMBDA r : r.status = "success"))]

\* the dict returned after the index is built: the retriever searches the
\* index for the k = 5 most similar chunks
ResultDict(chunks, results) ==
    [retriever |-> [docs |-> chunks, k |-> 5],
     vector_store |-> [docs |-> chunks],
     chunks |-> chunks,
     processing_results |-> results,
     total_chunks |-> Len(chunks),
     successful_videos |->
         Len(SelectSeq(results, LAMBDA r : r.status = "success"))]

\* if progress_callback: progress_callback(current, total, message)
ProgressCall(cb, current, total, message) ==
    IF cb
    THEN <<[ev |-> "callback", i |-> current, total |-> total, msg |-> message]>>
    ELSE <<>>

\* the transcript is fetched first and the progress reported afterwards
StartVideo_fetch_first(cb, i, total, title) ==
    <<[ev |-> "fetch", i |-> i]>>
    \o ProgressCall(cb, i, total, <<"Processing: ", title, "...">>)

\* the head of the loop body: the progress callback of video i, then
\* transcript = get_youtube_transcript(url)
StartVideo(cb, i, total, title) ==
    ProgressCall(cb, i, total, <<"Processing: ", title, "...">>)
    \o <<[ev |-> "fetch", i |-> i]>>

BuildInit ==
    /\ ClassifyIdle /\ EnumIdle /\ FetchIdle /\ AppIdle /\ ResultsIdle
    /\ b_pc = "loop"
    /\ video_urls \in Batches(MaxBatch)
    /\ has_callback \in BOOLEAN
    /\ b_i = 0
    /\ all_chunks = <<>>
    /\ processing_results = <<>>
    /\ fetched = <<>>
    /\ events = <<>>
    /\ b_result = <<>>

\* one pass of the loop body for video i: the callback, the fetch, then a
\* failed outcome, or the chunks, a success outcome and the sleep; calling
\* startswith on a transcript that is None raises out of the function
ProcessVideo ==
    /\ b_pc = "loop"
    /\ b_i < Len(video_urls)
    /\ LET source == video_urls[b_i + 1][1]
           title  == video_urls[b_i + 1][2]
           before == StartVideo(has_callback, b_i, Len(video_urls), title)
       IN  \E transcript \in FetchValues[source] :
             /\ fetched' = Append(fetched, transcript)
             /\ IF transcript.type # "str"
                THEN /\ b_pc' = "raised"
                     /\ b_result' = [raised_in |-> "loop"]
                     /\ events' = events \o before
                     /\ UNCHANGED <<b_i, all_chunks, processing_results>>
                ELSE IF IsFailure(transcript.s)
                THEN /\ processing_results' =
                            Append(processing_results,
                                   [url |-> source, title |-> title, status |-> "failed",
                                    error |-> transcript.s])
                     /\ events' = events \o before
                     /\ b_i' = b_i + 1
                     /\ UNCHANGED <<b_pc, all_chunks, b_result>>
                ELSE LET chunks == ChunkDocs(transcript.s, source, title, b_i)
                     IN  /\ all_chunks' = all_chunks \o chunks
                         /\ processing_results' =
                                Append(processing_results,
                                       [url |-> source, title |-> title,
                                        status |-> "success",
                                        chunks_count |-> Len(chunks)])
                         /\ events' = events \o before \o <<[ev |-> "sleep", i |-> b_i]>>
                         /\ b_i' = b_i + 1
                         /\ UNCHANGED <<b_pc, b_result>>
    /\ UNCHANGED <<video_urls, has_callback>>
    /\ UNCHANGED <<c_vars, e_vars, f_vars, a_vars, u_vars>>

\* if not all_chunks: return {"error": ..., "processing_results": ...}
ReturnNoTranscripts ==
    /\ b_pc = "loop"
    /\ b_i = Len(video_urls)
    /\ all_chunks = <<>>
    /\ b_result' = NoTranscriptsDict(processing_results)
    /\ b_pc' = "returned"
    /\ UNCHANGED <<video_urls, has_callback, b_i, all_chunks, processing_results,
                   fetched, events>>
    /\ UNCHANGED <<c_vars, e_vars, f_vars, a_vars, u_vars>>

\* the embedding callback, FAISS.from_documents over all chunks, and the
\* returned dict; a failing embedding service raises out of the function
BuildIndex ==
    /\ b_pc = "loop"
    /\ b_i = Len(video_urls)
    /\ all_chunks # <<>>
    /\ \E embedded \in BOOLEAN :
         /\ events' = events
                \o ProgressCall(has_callback, Len(video_urls), Len(video_urls),
                                <<"Creating embeddings...">>)
                \o <<[ev |-> "embed", i |-> Len(video_urls)]>>
         /\ IF embedded
            THEN /\ b_pc' = "returned"
                 /\ b_result' = ResultDict(all_chunks, processing_results)
            ELSE /\ b_pc' = "raised"
                 /\ b_result' = [raised_in |-> "index"]
    /\ UNCHANGED <<video_urls, has_callback, b_i, all_chunks, processing_results,
                   fetched>>
    /\ UNCHANGED <<c_vars, e_vars, f_vars, a_vars, u_vars>>

Init == BuildInit

Next == ProcessVideo \/ ReturnNoTranscripts \/ BuildIndex

Spec == Init /\ [][Next]_vars

----------------------------------------------------------------------------
(* Claims about the transcript fetcher and the index build *)

ErrorWord == <<"E", "r", "r", "o", "r">>

\* a failure string of the fetcher: it begins with "Error"
IsErrorSentinel(v) == v.type = "str" /\ StartsWith(v.s, ErrorWord)

\* the fetch gave transcript text
FetchSucceeded(v) == v.type = "str" /\ ~StartsWith(v.s, ErrorWord)

\* C5: get_youtube_transcript never raises and always returns a string,
\* transcript text or a string beginning with "Error"; a failure of the
\* speech-to-text tier comes back as an "Error (...): <detail>" string.
C5_AlwaysAString ==
    f_pc = "done" =>
        /\ f_result.value.type = "str"
        /\ ( /\ Len(f_result.calls) > 0
             /\ f_result.calls[Len(f_result.calls)] = "assemblyai"
             /\ f_env.stt # "stt_text" )
           => StartsWith(f_result.value.s, ErrorWord \o <<" ", "(">>)

\* C6: every video whose fetch returned an error sentinel string ("Error:
\* ..." or "Error (...): ...") is recorded as failed with that message and
\* contributes no chunks.
C6_SentinelRecordedFailed ==
    \A j \in 1..Len(processing_results) :
        IsErrorSentinel(fetched[j]) =>
            /\ processing_results[j].status = "failed"
            /\ processing_results[j].error = fetched[j].s
            /\ \A k \in 1..Len(all_chunks) :
                   all_chunks[k].metadata.video_index # j - 1

CountStatus(results, status) ==
    Cardinality({j \in 1..Len(results) : results[j].status = status})

\* C7: the returned processing_results has one entry per input video, in
\* input order with that video's url and title; as many entries are success
\* as fetches succeeded and as many failed as fetches failed; and
\* successful_videos is the number of fetches that succeeded.
C7_OutcomesMirrorInput ==
    b_pc = "returned" =>
        LET results == b_result.processing_results
            K == Cardinality({j \in 1..Len(fetched) : FetchSucceeded(fetched[j])})
        IN  /\ Len(results) = Len(video_urls)
            /\ \A j \in 1..Len(results) :
                   /\ results[j].url = video_urls[j][1]
                   /\ results[j].title = video_urls[j][2]
            /\ CountStatus(results, "success") = K
            /\ CountStatus(results, "failed") = Len(video_urls) - K
            /\ "successful_videos" \in DOMAIN b_result => b_result.successful_videos = K

\* C8: when the fetch fails for every video of a batch, whichever tier
\* produced the failure, the result holds an error and no index, and the
\* embedding step is never invoked.
C8_AllFailedGivesError ==
    ( /\ b_pc = "returned"
      /\ Len(video_urls) > 0
      /\ \A j \in 1..Len(fetched) : ~FetchSucceeded(fetched[j]) )
    => /\ "error" \in DOMAIN b_result
       /\ "retriever" \notin DOMAIN b_result
       /\ "vector_store" \notin DOMAIN b_result
       /\ \A n \in 1..Len(events) : events[n].ev # "embed"

\* C9: whatever the fetcher yields for a video, the run does not raise in
\* the per-video loop, the fetch is attempted for every video, and the
\* returned dict holds the full per-video processing_results.
C9_FailureNeverAborts ==
    /\ b_pc = "raised" => b_result.raised_in # "loop"
    /\ b_pc \in {"returned", "raised"} =>
           \A i \in 0..(Len(video_urls) - 1) :
               \E n \in 1..Len(events) : events[n].ev = "fetch" /\ events[n].i = i
    /\ b_pc = "returned" => Len(b_result.processing_results) = Len(video_urls)

\* number of chunks the videos before the j-th one put into all_chunks
RECURSIVE ChunksBefore(_)
ChunksBefore(j) ==
    IF j <= 1 THEN 0
    ELSE ChunksBefore(j - 1)
         + (IF processing_results[j - 1].status = "success"
            THEN processing_results[j - 1].chunks_count ELSE 0)

\* C10: every chunk carries the metadata of the video it was split from:
\* video_index is that video's position in the input, source and title are
\* its url and title, also when earlier videos failed; the returned chunk
\* set is these chunks.
C10_ChunkMetadataMatchesVideo ==
    /\ \A j \in 1..Len(processing_results) :
           processing_results[j].status = "success" =>
               \A k \in (ChunksBefore(j) + 1)..(ChunksBefore(j) + processing_results[j].chunks_count) :
                   /\ k <= Len(all_chunks)
                   /\ all_chunks[k].metadata.video_index = j - 1
                   /\ all_chunks[k].metadata.source = video_urls[j][1]
                   /\ all_chunks[k].metadata.title = video_urls[j][2]
    /\ Len(all_chunks) = ChunksBefore(Len(processing_results) + 1)
    /\ (b_pc = "returned" /\ "chunks" \in DOMAIN b_result) =>
           b_result.chunks = all_chunks

\* a run returned chunks of a later video after its first video failed
C10_Witness ==
    /\ b_pc = "returned"
    /\ "chunks" \in DOMAIN b_result
    /\ processing_results[1].status = "failed"
    /\ \E k \in 1..Len(b_result.chunks) : b_result.chunks[k].metadata.video_index >= 1

----------------------------------------------------------------------------
(* The Streamlit session of app.py: every step is one run of the script *)

\* the defaults the script stores for the keys missing from the session
SessionDefaults ==
    [retriever |-> PyNone, chunks |-> PyNone, chat_history |-> <<>>,
     videos_processed |-> FALSE, processing_results |-> <<>>,
     total_chunks |-> 0, successful_videos |-> 0, transcripts |-> <<>>,
     show_transcripts |-> FALSE]

\* if key not in st.session_state: st.session_state[key] = default
InitSessionState(ss) ==
    [key \in DOMAIN ss \cup DOMAIN SessionDefaults |->
        IF key \in DOMAIN ss THEN ss[key] ELSE SessionDefaults[key]]

ClearedKeys ==
    {"retriever", "chunks", "processing_results", "videos_processed",
     "chat_history", "transcripts"}

\* the handler forgets to delete videos_processed
ClearAllData_keeps_flag(ss) ==
    [key \in DOMAIN ss \ (ClearedKeys \ {"videos_processed"}) |-> ss[key]]

\* for key in [...]: if key in st.session_state: del st.session_state[key]
ClearAllData(ss) == [key \in DOMAIN ss \ ClearedKeys |-> ss[key]]

\* what the Process button stores from the result of the build
StoreResult(ss, result) ==
    IF "error" \in DOMAIN result
    THEN [ss EXCEPT !.videos_processed = FALSE]
    ELSE [ss EXCEPT !.retriever = result.retriever,
                    !.chunks = result.chunks,
                    !.processing_results = result.processing_results,
                    !.total_chunks = result.total_chunks,
                    !.successful_videos = result.successful_videos,
                    !.transcripts = IF "transcripts" \in DOMAIN result
                                    THEN result.transcripts ELSE <<>>,
                    !.videos_processed = TRUE,
                    !.chat_history = <<>>]

\* the expander keeps every source of the message
UniqueSources_keep_all(sources) == sources

\* unique_sources: the sources of a message whose url was not seen before
UniqueSources(sources) ==
    LET keep(k) == \A j \in 1..(k - 1) : sources[j].url # sources[k].url
        F[k \in 0..Len(sources)] ==
            IF k = 0 THEN <<>>
            ELSE IF keep(k) THEN Append(F[k - 1], sources[k]) ELSE F[k - 1]
    IN  F[Len(sources)]

\* the chat history as drawn: under an assistant message with sources the
\* "Sources Used" expander lists unique_sources, other messages show none
RenderHistory(chat_history) ==
    [m \in 1..Len(chat_history) |->
        IF /\ chat_history[m].role = "assistant"
           /\ "sources" \in DOMAIN chat_history[m]
           /\ chat_history[m].sources # <<>>
        THEN UniqueSources(chat_history[m].sources)
        ELSE <<>>]

\* the main area is drawn only once videos are processed
MainArea(ss) ==
    IF ss.videos_processed THEN RenderHistory(ss.chat_history) ELSE <<>>

\* sources.append({'title': ..., 'url': ...}) for every retrieved document
\* that has metadata
SourcesOf(docs) ==
    LET withMeta == SelectSeq(docs, LAMBDA d : "metadata" \in DOMAIN d)
    IN  [k \in 1..Len(withMeta) |->
            [title |-> withMeta[k].metadata.title,
             url |-> withMeta[k].metadata.source]]

\* retriever.get_relevant_documents(question): the k most similar chunks of
\* the index, most similar first; any ranking of the chunks is possible
RelevantDocuments(retriever) ==
    LET n == Len(retriever.docs)
        m == IF retriever.k < n THEN retriever.k ELSE n
        ranks == {r \in [1..m -> 1..n] : \A a, b \in 1..m : a # b => r[a] # r[b]}
    IN  {[j \in 1..m |-> retriever.docs[r[j]]] : r \in ranks}

MaxRuns == 3
MaxQuestions == 2

Questions == {<<"typed question 1">>, <<"typed question 2">>}

\* the four suggestion buttons
Suggestions ==
    {<<"What are the main topics covered in these videos?">>,
     <<"Can you summarize the key points from all videos?">>,
     <<"What specific techniques or methods are mentioned?">>,
     <<"Are there any common themes across the videos?">>}

FirstRef  == <<[netloc |-> "youtube.com", v |-> "vid1", path |-> "watch", re11 |-> None],
               "First">>
SecondRef == <<[netloc |-> "youtu.be", v |-> None, path |-> "vid2", re11 |-> "vid2"],
               "Second">>

Outcome(ref, chunks) ==
    [url |-> ref[1], title |-> ref[2], status |-> "success",
     chunks_count |-> Len(chunks)]

\* what backend.build_vectorstore_from_multiple_videos hands to the page: the
\* error dict when no video gave a transcript, or the dict of a built index
\* (two chunks of the first video and one of the second; or one video only)
RunResults ==
    LET a  == ChunkDocs(<<"caption", "caption">>, FirstRef[1], FirstRef[2], 0)
        b1 == ChunkDocs(<<"caption">>, SecondRef[1], SecondRef[2], 1)
        b0 == ChunkDocs(<<"caption">>, SecondRef[1], SecondRef[2], 0)
    IN  { NoTranscriptsDict(<<[url |-> FirstRef[1], title |-> FirstRef[2],
                               status |-> "failed", error |-> NoCaptions]>>),
          ResultDict(a \o b1, <<Outcome(FirstRef, a), Outcome(SecondRef, b1)>>),
          ResultDict(b0, <<Outcome(SecondRef, b0)>>) }

\* every run that builds an index builds a new index object
BuiltBy(result, run) ==
    IF "error" \in DOMAIN result THEN result
    ELSE [result EXCEPT !.retriever =
              [docs |-> @.docs, k |-> @.k, built_by |-> run]]

\* how a press of "Process Videos" can end before anything is stored
ProcessEndings == {"no videos", "raised", "returned"}

UserMessages(chat_history) ==
    Len(SelectSeq(chat_history, LAMBDA msg : msg.role = "user"))

AppInit ==
    /\ ClassifyIdle /\ EnumIdle /\ FetchIdle /\ BuildIdle /\ ResultsIdle
    /\ session = InitSessionState(<<>>)
    /\ shown = <<>>
    /\ runs = 0
    /\ last_index = PyNone
    /\ a_exc = "none"

\* the "Process Videos" button: no video found, or the build raises, or its
\* result is stored; the script then goes on to draw the main area
ProcessVideos ==
    /\ runs < MaxRuns
    /\ runs' = runs + 1
    /\ \E ending \in ProcessEndings :
         IF ending = "no videos"
         THEN /\ a_exc' = "none"
              /\ shown' = MainArea(session)
              /\ UNCHANGED <<session, last_index>>
         ELSE IF ending = "raised"
         THEN /\ a_exc' = "build"
              /\ shown' = <<>>
              /\ UNCHANGED <<session, last_index>>
         ELSE \E r \in RunResults :
                LET result == BuiltBy(r, runs + 1)
                IN  /\ session' = StoreResult(session, result)
                    /\ last_index' = IF "error" \in DOMAIN result
                                     THEN last_index ELSE result.retriever
                    /\ shown' = MainArea(session')
                    /\ a_exc' = "none"
    /\ UNCHANGED <<c_vars, e_vars, f_vars, b_vars, u_vars>>

\* any other widget interaction after a run that stopped with an exception:
\* the script runs from the top with no button pressed
Rerun ==
    /\ a_exc # "none"
    /\ session' = InitSessionState(session)
    /\ shown' = MainArea(session')
    /\ a_exc' = "none"
    /\ UNCHANGED <<runs, last_index>>
    /\ UNCHANGED <<c_vars, e_vars, f_vars, b_vars, u_vars>>

\* the "Clear All Data" button, drawn once videos are processed: the keys
\* are deleted and st.rerun() runs the script again, which stores defaults
ClearAll ==
    /\ a_exc # "build"
    /\ session.videos_processed
    /\ session' = InitSessionState(ClearAllData(session))
    /\ shown' = MainArea(session')
    /\ a_exc' = "none"
    /\ UNCHANGED <<runs, last_index>>
    /\ UNCHANGED <<c_vars, e_vars, f_vars, b_vars, u_vars>>

\* a suggestion button, drawn while the chat history is empty: the question
\* is appended as a user message and the script reruns
ClickSuggestion ==
    /\ a_exc # "build"
    /\ session.videos_processed
    /\ session.chat_history = <<>>
    /\ \E suggestion \in Suggestions :
         session' = [session EXCEPT !.chat_history =
                        Append(@, [role |-> "user", content |-> suggestion])]
    /\ shown' = MainArea(session')
    /\ a_exc' = "none"
    /\ UNCHANGED <<runs, last_index>>
    /\ UNCHANGED <<c_vars, e_vars, f_vars, b_vars, u_vars>>

\* a question typed into the chat input: the user message, the retrieval,
\* the sources, the model call and the assistant message, then st.rerun();
\* an exception of the retrieval or of the model call ends the run after the
\* history was drawn and the user message appended
ChatInput ==
    /\ a_exc # "build"
    /\ session.videos_processed
    /\ UserMessages(session.chat_history) < MaxQuestions
    /\ \E user_input \in Questions :
         LET asked == Append(session.chat_history,
                             [role |-> "user", content |-> user_input])
             retriever == session.retriever
         IN  IF retriever = PyNone
             THEN /\ session' = [session EXCEPT !.chat_history = asked]
                  /\ a_exc' = "AttributeError"
                  /\ shown' = MainArea(session)
             ELSE \E docs \in RelevantDocuments(retriever), answered \in BOOLEAN :
                    IF answered
                    THEN /\ session' = [session EXCEPT !.chat_history =
                                Append(asked, [role |-> "assistant",
                                               content |-> <<"answer">>,
                                               sources |-> SourcesOf(docs)])]
                         /\ a_exc' = "none"
                         /\ shown' = MainArea(session')
                    ELSE /\ session' = [session EXCEPT !.chat_history = asked]
                         /\ a_exc' = "llm"
                         /\ shown' = MainArea(session)
    /\ UNCHANGED <<runs, last_index>>
    /\ UNCHANGED <<c_vars, e_vars, f_vars, b_vars, u_vars>>

AppNext == ProcessVideos \/ Rerun \/ ClearAll \/ ClickSuggestion \/ ChatInput

SpecApp == AppInit /\ [][AppNext]_vars

----------------------------------------------------------------------------
(* Claims about the chat session *)

NoDuplicateUrls(sources) ==
    \A p, q \in 1..Len(sources) : p # q => sources[p].url # sources[q].url

\* the position of the first entry of sources with this url
FirstWithUrl(sources, u) ==
    CHOOSE p \in 1..Len(sources) :
        /\ sources[p].url = u
        /\ \A j \in 1..(p - 1) : sources[j].url # u

\* listed holds, for every url of sources, the first entry with that url, in
\* the order of these first entries
FirstOccurrences(listed, sources) ==
    /\ NoDuplicateUrls(listed)
    /\ {listed[p].url : p \in 1..Len(listed)}
           = {sources[p].url : p \in 1..Len(sources)}
    /\ \A p \in 1..Len(listed) :
           listed[p] = sources[FirstWithUrl(sources, listed[p].url)]
    /\ \A p, q \in 1..Len(listed) :
           p < q => FirstWithUrl(sources, listed[p].url)
                        < FirstWithUrl(sources, listed[q].url)

AssistantMessages ==
    {m \in 1..Len(session.chat_history) :
        session.chat_history[m].role = "assistant"}

\* C11 as stated: the sources list stored with an answer never contains two
\* entries with the same url.
C11_StoredSourcesUnique ==
    \A m \in AssistantMessages :
        NoDuplicateUrls(session.chat_history[m].sources)

\* C11: the sources list shown for an answer never contains two entries with
\* the same url and keeps, for every url, the first entry in retrieval order;
\* the list stored with the answer has one entry per retrieved chunk, in
\* retrieval order, and may hold a url more than once.
C11_ShownSourcesUnique ==
    /\ Len(shown) <= Len(session.chat_history)
    /\ \A m \in 1..Len(shown) :
         IF m \in AssistantMessages
         THEN FirstOccurrences(shown[m], session.chat_history[m].sources)
         ELSE shown[m] = <<>>
    /\ \A m \in AssistantMessages :
         Len(session.chat_history[m].sources)
             = (IF session.retriever.k < Len(session.retriever.docs)
                THEN session.retriever.k ELSE Len(session.retriever.docs))

\* two of the three retrieved chunks are of one video: three sources are
\* stored with the answer and two are shown
C11_Witness ==
    \E m \in AssistantMessages :
        /\ m <= Len(shown)
        /\ Len(session.chat_history[m].sources) = 3
        /\ ~NoDuplicateUrls(session.chat_history[m].sources)
        /\ Len(shown[m]) = 2

----------------------------------------------------------------------------
(* Claims about the fallback chain of get_youtube_transcript *)

TierOrder ==
    <<"get_transcript:en", "get_transcript:en-US", "list_transcripts", "assemblyai">>

\* what the caption service answers to the k-th caption tier
TierAnswer(k) == <<f_env.t1, f_env.t2, f_env.t3>>[k]

FetchedWithId == f_pc = "done" /\ ~NoVideoId(get_youtube_video_id(f_url))

\* C12: the tiers are attempted in the order captions 'en', captions 'en-US',
\* caption listing, speech-to-text; a tier is invoked only after every tier
\* before it has raised; once a tier succeeds no later tier is invoked and
\* the returned value is made from its result.
C12_TiersInOrder ==
    FetchedWithId =>
        LET calls == f_result.calls
        IN  /\ Len(calls) >= 1
            /\ calls = SubSeq(TierOrder, 1, Len(calls))
            /\ \A k \in 1..(Len(calls) - 1) : TierAnswer(k).kind # "ok"
            /\ \A k \in 1..3 :
                 (k <= Len(calls) /\ TierAnswer(k).kind = "ok") =>
                     /\ Len(calls) = k
                     /\ TierAnswer(k).list.fmt = "segments" =>
                            f_result.value = PyStr(JoinSegments(TierAnswer(k).list.segs))
                     /\ TierAnswer(k).list.fmt = "bad_format" =>
                            f_result.value = PyStr(ErrUnexpectedFormat)
            /\ Len(calls) = 4 =>
                 f_result.value = assemblyai_transcribe_youtube(f_url, f_env.stt)

\* 'en' raises, 'en-US' gives two segments, the listing would give another
\* transcript: the run stops after 'en-US' and returns its text
C12_Witness ==
    /\ FetchedWithId
    /\ f_env.t1.kind = "raise"
    /\ f_env.t2.kind = "ok" /\ f_env.t2.list.fmt = "segments"
    /\ Len(f_env.t2.list.segs) = 2
    /\ f_env.t3.kind = "ok" /\ f_env.t3.list # f_env.t2.list
    /\ Len(f_result.calls) = 2
    /\ f_result.value = PyStr(<<"caption", " ", "caption">>)

\* C13: when a caption tier reports TranscriptsDisabled, the fetch goes
\* directly to speech-to-text: no further caption tier is attempted.
C13_DisabledGoesToAudio ==
    FetchedWithId =>
        \A k \in 1..3 :
            ( /\ \A j \in 1..(k - 1) : TierAnswer(j).kind = "raise"
              /\ TierAnswer(k).kind = "disabled" )
            => f_result.calls = SubSeq(TierOrder, 1, k) \o <<"assemblyai">>


\* C14: the run returns a top-level error if and only if no chunk was
\* produced; once at least one chunk was produced the run does not fail over
\* a video, and a returned index is built over all chunks.
C14_ErrorIffNoChunks ==
    /\ b_pc = "returned" =>
         /\ ("error" \in DOMAIN b_result) <=> (all_chunks = <<>>)
         /\ "error" \notin DOMAIN b_result =>
                /\ b_result.retriever.docs = all_chunks
                /\ b_result.vector_store.docs = all_chunks
    /\ (b_pc = "raised" /\ all_chunks # <<>>) => b_result.raised_in # "loop"


CallbackEvents == {n \in 1..Len(events) : events[n].ev = "callback"}

\* C15: with a progress callback the run calls it exactly once per video,
\* with (index of the video, total, message), directly before that video's
\* transcript fetch, and the indexes of successive callbacks increase
\* strictly; without a callback none is made.
C15_CallbackBeforeEachFetch ==
    /\ ~has_callback => CallbackEvents = {}
    /\ has_callback =>
         /\ \A n \in 1..Len(events) :
              events[n].ev = "fetch" =>
                  /\ n > 1
                  /\ events[n - 1] =
                         [ev |-> "callback", i |-> events[n].i,
                          total |-> Len(video_urls),
                          msg |-> <<"Processing: ", video_urls[events[n].i + 1][2], "...">>]
                  /\ Cardinality({c \in CallbackEvents : events[c].i = events[n].i}) = 1
         /\ \A c, d \in CallbackEvents : c < d => events[c].i < events[d].i
         /\ \A c \in CallbackEvents :
              events[c].i < Len(video_urls) =>
                  (c < Len(events) /\ events[c + 1] = [ev |-> "fetch", i |-> events[c].i])
    /\ b_pc = "returned" =>
         \A i \in 0..(Len(video_urls) - 1) :
             Cardinality({n \in 1..Len(events) :
                             events[n].ev = "fetch" /\ events[n].i = i}) = 1

\* three videos, the second one failed: three callbacks 0, 1, 2, each
\* directly before its fetch
C15_Witness ==
    /\ has_callback
    /\ b_pc = "returned"
    /\ Len(video_urls) = 3
    /\ processing_results[2].status = "failed"
    /\ Cardinality({c \in CallbackEvents : events[c].i < 3}) = 3


\* C16: between the transcript fetch of video i and the transcript fetch of
\* video i+1 the run always performs the 0.5 s sleep, whether video i
\* succeeded or failed.
C16_SleepBetweenFetches ==
    \A n, m \in 1..Len(events) :
        ( /\ n < m
          /\ events[n].ev = "fetch"
          /\ events[m].ev = "fetch"
          /\ events[m].i = events[n].i + 1 )
        => \E s \in (n + 1)..(m - 1) : events[s].ev = "sleep"


RECURSIVE SumChunksCount(_)
SumChunksCount(results) ==
    IF results = <<>> THEN 0
    ELSE (IF Head(results).status = "success" THEN Head(results).chunks_count ELSE 0)
         + SumChunksCount(Tail(results))

ReturnedIndex == b_pc = "returned" /\ "error" \notin DOMAIN b_result

\* C20: on a successful return total_chunks is the length of the returned
\* chunk list and the sum of chunks_count over the success outcomes, and the
\* chunks of video i come before those of video j whenever i < j.
C20_TotalChunksAndOrder ==
    ReturnedIndex =>
        /\ b_result.total_chunks = Len(b_result.chunks)
        /\ b_result.total_chunks = SumChunksCount(b_result.processing_results)
        /\ \A p, q \in 1..Len(b_result.chunks) :
               b_result.chunks[p].metadata.video_index
                   < b_result.chunks[q].metadata.video_index => p < q

\* three videos: two chunks of the first, none of the failed second, two of
\* the third
C20_Witness ==
    /\ ReturnedIndex
    /\ Len(b_result.processing_results) = 3
    /\ b_result.processing_results[1].status = "success"
    /\ b_result.processing_results[1].chunks_count = 2
    /\ b_result.processing_results[2].status = "failed"
    /\ b_result.processing_results[3].status = "success"
    /\ b_result.processing_results[3].chunks_count = 2
    /\ b_result.total_chunks = 4

----------------------------------------------------------------------------
(* Claims about questions, answers and the session's index *)

\* C17: every question entered into the chat, typed or chosen from the
\* suggestions, gets its own retrieval and exactly one assistant answer
\* directly after it: no user message of chat_history is left without a
\* following assistant message.
C17_EveryQuestionAnswered ==
    \A m \in 1..Len(session.chat_history) :
        session.chat_history[m].role = "user" =>
            /\ m < Len(session.chat_history)
            /\ session.chat_history[m + 1].role = "assistant"

\* C19: whenever videos_processed is true the session's retriever is not
\* None and is the index built by the most recent successful processing
\* run; the chat handler never meets a missing index.
C19_ProcessedHasIndex ==
    /\ a_exc # "AttributeError"
    /\ session.videos_processed =>
         /\ session.retriever # PyNone
         /\ session.retriever = last_index

\* a second successful run after a Clear All Data, then a run that stored
\* nothing: the session still chats with the index of the second run
C19_Witness ==
    /\ session.videos_processed
    /\ runs = 3
    /\ session.retriever # PyNone
    /\ session.retriever.built_by = 2

----------------------------------------------------------------------------
(* utils.save_processing_results and utils.load_processing_results.  The
   text of the file is the sequence of JSON tokens (white space left out) *)

LBrace   == [t |-> "{"]
RBrace   == [t |-> "}"]
LBracket == [t |-> "["]
RBracket == [t |-> "]"]
Colon    == [t |-> ":"]
Comma    == [t |-> ","]
JStr(s)  == [t |-> "str", v |-> s]
JInt(n)  == [t |-> "int", n |-> n]

\* the parts of an object or array, separated by commas
RECURSIVE JoinComma(_)
JoinComma(parts) ==
    IF parts = <<>> THEN <<>>
    ELSE IF Len(parts) = 1 THEN parts[1]
    ELSE parts[1] \o <<Comma>> \o JoinComma(Tail(parts))

JMember(key, text) == <<JStr(key), Colon>> \o text

JObject(members) == <<LBrace>> \o JoinComma(members) \o <<RBrace>>

JArray(elements) == <<LBracket>> \o JoinComma(elements) \o <<RBracket>>

\* json.dump of one entry of results, its keys in insertion order
DumpOutcome(r) ==
    JObject(<<JMember("url", <<JStr(r.url)>>),
              JMember("title", <<JStr(r.title)>>),
              JMember("status", <<JStr(r.status)>>),
              IF "chunks_count" \in DOMAIN r
              THEN JMember("chunks_count", <<JInt(r.chunks_count)>>)
              ELSE JMember("error", <<JStr(r.error)>>)>>)

\* the output document without its failed_videos member
DumpDocument_no_failed(doc) ==
    JObject(<<JMember("timestamp", <<JStr(doc.timestamp)>>),
              JMember("total_videos", <<JInt(doc.total_videos)>>),
              JMember("successful_videos", <<JInt(doc.successful_videos)>>),
              JMember("results",
                      JArray([j \in 1..Len(doc.results) |->
                                 DumpOutcome(doc.results[j])]))>>)

\* json.dump(output_data, f, indent=2, ensure_ascii=False)
DumpDocument(doc) ==
    JObject(<<JMember("timestamp", <<JStr(doc.timestamp)>>),
              JMember("total_videos", <<JInt(doc.total_videos)>>),
              JMember("successful_videos", <<JInt(doc.successful_videos)>>),
              JMember("failed_videos", <<JInt(doc.failed_videos)>>),
              JMember("results",
                      JArray([j \in 1..Len(doc.results) |->
                                 DumpOutcome(doc.results[j])]))>>)

\* output_data of save_processing_results
OutputData(results, timestamp) ==
    [timestamp |-> timestamp,
     total_videos |-> Len(results),
     successful_videos |-> Len(SelectSeq(results, LAMBDA r : r.status = "success")),
     failed_videos |-> Len(SelectSeq(results, LAMBDA r : r.status = "failed")),
     results |-> results]

\* the JSON decoder: objects become dicts (a later member replaces an
\* earlier one of the same key), arrays lists, strings str, numbers int
ParseFail == [ok |-> FALSE, value |-> <<>>, next |-> 0]

Kind(text, p) == IF p \in 1..Len(text) THEN text[p].t ELSE "eof"

RECURSIVE ParseValue(_, _)
RECURSIVE ParseMembers(_, _, _)
RECURSIVE ParseElements(_, _, _)

ParseValue(text, p) ==
    LET kind == Kind(text, p)
    IN  IF kind = "str" THEN [ok |-> TRUE, value |-> text[p].v, next |-> p + 1]
        ELSE IF kind = "int" THEN [ok |-> TRUE, value |-> text[p].n, next |-> p + 1]
        ELSE IF kind = "{"
        THEN IF Kind(text, p + 1) = "}"
             THEN [ok |-> TRUE, value |-> <<>>, next |-> p + 2]
             ELSE ParseMembers(text, p + 1, <<>>)
        ELSE IF kind = "["
        THEN IF Kind(text, p + 1) = "]"
             THEN [ok |-> TRUE, value |-> <<>>, next |-> p + 2]
             ELSE ParseElements(text, p + 1, <<>>)
        ELSE ParseFail

ParseMembers(text, p, dict) ==
    IF Kind(text, p) # "str" \/ Kind(text, p + 1) # ":" THEN ParseFail
    ELSE LET member == ParseValue(text, p + 2)
         IN  IF ~member.ok THEN ParseFail
             ELSE LET key == text[p].v
                      grown == [k \in DOMAIN dict \cup {key} |->
                                   IF k = key THEN member.value ELSE dict[k]]
                  IN  IF Kind(text, member.next) = ","
                      THEN ParseMembers(text, member.next + 1, grown)
                      ELSE IF Kind(text, member.next) = "}"
                      THEN [ok |-> TRUE, value |-> grown, next |-> member.next + 1]
                      ELSE ParseFail

ParseElements(text, p, list) ==
    LET element == ParseValue(text, p)
    IN  IF ~element.ok THEN ParseFail
        ELSE IF Kind(text, element.next) = ","
        THEN ParseElements(text, element.next + 1, Append(list, element.value))
        ELSE IF Kind(text, element.next) = "]"
        THEN [ok |-> TRUE, value |-> Append(list, element.value),
              next |-> element.next + 1]
        ELSE ParseFail

\* with open(filename, 'r') as f: return json.load(f)
LoadBody(file) ==
    IF ~file.exists THEN [exc |-> "FileNotFoundError", value |-> <<>>]
    ELSE LET parsed == ParseValue(file.text, 1)
         IN  IF parsed.ok /\ parsed.next = Len(file.text) + 1
             THEN [exc |-> "none", value |-> parsed.value]
             ELSE [exc |-> "JSONDecodeError", value |-> <<>>]

FileName == "processing_results.json"

NotFoundMessage(filename) == <<"File ", filename, " not found.">>
InvalidJsonMessage(filename) == <<"Invalid JSON format in ", filename, ".">>

EmptyDict == <<>>

\* returns [raised, value, errors]: the returned dict and the st.error
\* messages, or the exception leaving the function
load_processing_results(filename, file) ==
    LET body == LoadBody(file)
    IN  IF body.exc = "none"
        THEN [raised |-> FALSE, value |-> body.value, errors |-> <<>>]
        ELSE IF body.exc = "FileNotFoundError"
        THEN [raised |-> FALSE, value |-> EmptyDict,
              errors |-> <<NotFoundMessage(filename)>>]
        ELSE IF body.exc = "JSONDecodeError"
        THEN [raised |-> FALSE, value |-> EmptyDict,
              errors |-> <<InvalidJsonMessage(filename)>>]
        ELSE [raised |-> TRUE, value |-> <<>>, errors |-> <<>>]

MaxResults == 2

Timestamps == {"2025-01-01T10:00:00", "2025-01-02T11:30:00"}

\* entries of a processing_results list
SavedOutcomes ==
    { [url |-> "https://www.youtube.com/watch?v=vid1", title |-> "First",
       status |-> "success", chunks_count |-> 2],
      [url |-> "https://www.youtube.com/watch?v=vid2", title |-> "Second",
       status |-> "failed", error |-> "No captions available"],
      [url |-> "https://www.youtube.com/watch?v=vid3", title |-> "Third",
       status |-> "success", chunks_count |-> 0] }

RECURSIVE ResultLists(_)
ResultLists(n) ==
    IF n = 0 THEN {<<>>}
    ELSE ResultLists(n - 1)
         \cup {Append(l, r) : l \in {x \in ResultLists(n - 1) : Len(x) = n - 1},
                              r \in SavedOutcomes}

NoFile == [exists |-> FALSE, text |-> <<>>]

ResultsInit ==
    /\ ClassifyIdle /\ EnumIdle /\ FetchIdle /\ BuildIdle /\ AppIdle
    /\ u_pc = "ready"
    /\ u_results = <<>>
    /\ fs = NoFile
    /\ u_loaded = <<>>
    /\ u_errors = <<>>

\* save_processing_results(results, filename): the file is written anew
SaveResults ==
    /\ \E results \in ResultLists(MaxResults), timestamp \in Timestamps :
         /\ u_results' = results
         /\ fs' = [exists |-> TRUE,
                   text |-> DumpDocument(OutputData(results, timestamp))]
    /\ u_pc' = "saved"
    /\ u_loaded' = <<>>
    /\ u_errors' = <<>>
    /\ UNCHANGED <<c_vars, e_vars, f_vars, b_vars, a_vars>>

\* outside the program the file loses its end (an interrupted copy, an edit)
CutFile ==
    /\ fs.exists
    /\ fs.text # <<>>
    /\ \E n \in 0..(Len(fs.text) - 1) :
         fs' = [exists |-> TRUE, text |-> SubSeq(fs.text, 1, n)]
    /\ u_pc' = "cut"
    /\ u_loaded' = <<>>
    /\ u_errors' = <<>>
    /\ UNCHANGED u_results
    /\ UNCHANGED <<c_vars, e_vars, f_vars, b_vars, a_vars>>

\* outside the program the file is deleted
RemoveFile ==
    /\ fs.exists
    /\ fs' = NoFile
    /\ u_pc' = "removed"
    /\ u_loaded' = <<>>
    /\ u_errors' = <<>>
    /\ UNCHANGED u_results
    /\ UNCHANGED <<c_vars, e_vars, f_vars, b_vars, a_vars>>

\* load_processing_results(filename)
LoadResults ==
    /\ u_pc \notin {"loaded", "raised"}
    /\ LET call == load_processing_results(FileName, fs)
       IN  /\ u_pc' = IF call.raised THEN "raised" ELSE "loaded"
           /\ u_loaded' = call.value
           /\ u_errors' = call.errors
    /\ UNCHANGED <<u_results, fs>>
    /\ UNCHANGED <<c_vars, e_vars, f_vars, b_vars, a_vars>>

ResultsNext == SaveResults \/ CutFile \/ RemoveFile \/ LoadResults

SpecResults == ResultsInit /\ [][ResultsNext]_vars

\* the file is as save_processing_results wrote it at this timestamp
FileAsSaved(timestamp) ==
    fs.exists /\ fs.text = DumpDocument(OutputData(u_results, timestamp))

\* the file holds a beginning of what save_processing_results wrote
FileCutShort ==
    /\ fs.exists
    /\ \E timestamp \in Timestamps :
         LET written == DumpDocument(OutputData(u_results, timestamp))
         IN  \E n \in 0..(Len(written) - 1) : fs.text = SubSeq(written, 1, n)

\* C18: load_processing_results never raises for a missing file or for
\* malformed JSON: each is reported with its own message and the empty dict
\* is returned; a file as written by save_processing_results is read back
\* as the same document (total_videos, successful_videos, failed_videos,
\* results).
C18_LoadNeverRaises ==
    /\ u_pc # "raised"
    /\ NotFoundMessage(FileName) # InvalidJsonMessage(FileName)
    /\ u_pc = "loaded" =>
         /\ ~fs.exists =>
                /\ DOMAIN u_loaded = {}
                /\ u_errors = <<NotFoundMessage(FileName)>>
         /\ FileCutShort =>
                /\ DOMAIN u_loaded = {}
                /\ u_errors = <<InvalidJsonMessage(FileName)>>
         /\ \A timestamp \in Timestamps :
                FileAsSaved(timestamp) =>
                    /\ u_errors = <<>>
                    /\ u_loaded = OutputData(u_results, timestamp)
                    /\ u_loaded.total_videos = Len(u_results)
                    /\ u_loaded.results = u_results

\* a saved list of one success and one failed video is read back
C18_Witness ==
    /\ u_pc = "loaded"
    /\ \E timestamp \in Timestamps : FileAsSaved(timestamp)
    /\ u_errors = <<>>
    /\ Len(u_results) = 2
    /\ Len(u_loaded.results) = 2
    /\ u_loaded.successful_videos = 1
    /\ u_loaded.failed_videos = 1


\* the session-state fields a cleared session is to hold at initial value
SessionFields ==
    {"retriever", "chunks", "chat_history", "videos_processed",
     "processing_results", "total_chunks", "successful_videos", "transcripts"}

\* C21: after the Clear All Data action and the rerun it triggers, every
\* session-state field is back at its initial value (retriever None, chunks
\* None, chat_history empty, videos_processed false, processing_results
\* empty, total_chunks 0, successful_videos 0, transcripts empty).
C21_ClearRestoresInitial ==
    [][ClearAll => \A key \in SessionFields : session'[key] = SessionDefaults[key]]_vars


FetchedWithoutId == f_pc = "done" /\ NoVideoId(get_youtube_video_id(f_url))

\* C22: when no video identifier can be extracted from the url,
\* get_youtube_transcript returns exactly "Error: Invalid YouTube URL" and
\* calls no tier of the fallback chain: no caption service, no downloader,
\* no speech-to-text.
C22_NoIdNoTierCalled ==
    FetchedWithoutId =>
        /\ f_result.value = PyStr(<<"E", "r", "r", "o", "r", ":", " ", "Invalid YouTube URL">>)
        /\ f_result.calls = <<>>

\* a url without an identifier while the caption service would have answered
C22_Witness ==
    /\ FetchedWithoutId
    /\ get_youtube_video_id(f_url) = None
    /\ f_env.t1.kind = "ok"
    /\ f_env.t1.list.fmt = "segments"
    /\ f_result.calls = <<>>

=============================================================================
